---- MODULE Spec2Model ----
(***************************************************************************)
(* A model of app.py, the single-page credit report analyser: the four     *)
(* pipeline stages (extract_text_from_pdf, generate_credit_analysis_prompt,*)
(* call_gemini_api, format_ai_response_for_html) and the Streamlit script  *)
(* that chains them behind the "Analyze PDF with AI" button.               *)
(*                                                                         *)
(* A Python str is a sequence of one-character strings.  Python's None is  *)
(* the value None below, which is no text (its only element is not a       *)
(* character).                                                             *)
(***************************************************************************)
EXTENDS Integers, Sequences, FiniteSets, TLC

VARIABLES
    GOOGLE_API_KEY,           \* app.py:14, os.getenv("GOOGLE_API_KEY")
    uploaded_file,            \* app.py:217, the file uploader's value
    extracted_text,           \* app.py:224
    extraction_error,         \* app.py:224
    analysis_prompt,          \* app.py:227
    ai_response,              \* app.py:228
    ai_error,                 \* app.py:228
    formatted_html_response,  \* app.py:232
    screen,                   \* the elements the last script run drew, in order
    calls,                    \* the stage and library calls of the last run, in order
    handles,                  \* document handles the last run opened and did not close
    remote                    \* what the generation library did in the last run

vars == <<GOOGLE_API_KEY, uploaded_file, extracted_text, extraction_error,
          analysis_prompt, ai_response, ai_error, formatted_html_response,
          screen, calls, handles, remote>>

----------------------------------------------------------------------------
(* Python values *)

None == <<"None">>
Unset == <<"Unset">>      \* a name the script run has not bound (NameError on read)

\* Python truthiness of a str-or-None value: None and "" are falsy.
Truthy(v) == v # None /\ v # <<>>

Min(a, b) == IF a <= b THEN a ELSE b

RECURSIVE Concat(_)
\* "".join(parts)
Concat(parts) ==
    IF parts = <<>> THEN <<>> ELSE Head(parts) \o Concat(Tail(parts))

\* s[i:i+len(sub)] == sub, for a 1-based position i
StartsAt(s, i, sub) ==
    /\ i >= 1
    /\ i + Len(sub) - 1 <= Len(s)
    /\ \A k \in 1..Len(sub) : s[i + k - 1] = sub[k]

\* sub in s
Contains(s, sub) == \E i \in 1..(Len(s) + 1) : StartsAt(s, i, sub)

UpperLetters ==
    <<"A","B","C","D","E","F","G","H","I","J","K","L","M",
      "N","O","P","Q","R","S","T","U","V","W","X","Y","Z">>
LowerLetters ==
    <<"a","b","c","d","e","f","g","h","i","j","k","l","m",
      "n","o","p","q","r","s","t","u","v","w","x","y","z">>

UpperSet == {UpperLetters[k] : k \in 1..Len(UpperLetters)}
LowerSet == {LowerLetters[k] : k \in 1..Len(LowerLetters)}
LowerOf ==
    [c \in UpperSet |-> LowerLetters[CHOOSE k \in 1..Len(UpperLetters) : UpperLetters[k] = c]]
UpperOf ==
    [c \in LowerSet |-> UpperLetters[CHOOSE k \in 1..Len(LowerLetters) : LowerLetters[k] = c]]

LowerChar(c) == IF c \in UpperSet THEN LowerOf[c] ELSE c
UpperChar(c) == IF c \in LowerSet THEN UpperOf[c] ELSE c

\* str.lower() and str.upper()
Lower(s) == [k \in 1..Len(s) |-> LowerChar(s[k])]
Upper(s) == [k \in 1..Len(s) |-> UpperChar(s[k])]

\* what \s and \d match (re, str patterns) among the characters of the model
IsSpace(c) == c \in {" ", "\n", "\t", "\r"}
IsDigit(c) == c \in {"0","1","2","3","4","5","6","7","8","9"}

RECURSIVE ReplaceChar(_, _, _)
\* s.replace(c, new) for a one-character c
ReplaceChar(s, c, new) ==
    IF s = <<>> THEN <<>>
    ELSE (IF Head(s) = c THEN new ELSE <<Head(s)>>) \o ReplaceChar(Tail(s), c, new)

----------------------------------------------------------------------------
(* html.escape(s, quote=True) *)

Amp  == <<"&","a","m","p",";">>
Lt   == <<"&","l","t",";">>
Gt   == <<"&","g","t",";">>
Quot == <<"&","q","u","o","t",";">>
Apos == <<"&","#","x","2","7",";">>

\* The library replaces & first, then <, >, " and '.
html_escape(s) ==
    ReplaceChar(ReplaceChar(ReplaceChar(ReplaceChar(ReplaceChar(
        s, "&", Amp), "<", Lt), ">", Gt), "\"", Quot), "'", Apos)

----------------------------------------------------------------------------
(* format_ai_response_for_html, app.py:100-141 *)

Stars       == <<"*","*">>
StrongOpen  == <<"<","s","t","r","o","n","g",">">>
StrongClose == <<"<","/","s","t","r","o","n","g",">">>
SpanOpen    == <<"<","s","p","a","n"," ","c","l","a","s","s","=","\"",
                 "s","c","o","r","e","-","v","a","l","u","e","\"",">">>
SpanClose   == <<"<","/","s","p","a","n",">">>
Br          == <<"<","b","r",">">>
Phrase      == <<"E","s","t","i","m","a","t","e","d"," ",
                 "S","c","o","r","e"," ","R","a","n","g","e",":">>

RECURSIVE Find(_, _, _)
\* the least position >= from where sub starts in s, or 0
Find(s, sub, from) ==
    IF from + Len(sub) - 1 > Len(s) THEN 0
    ELSE IF StartsAt(s, from, sub) THEN from
    ELSE Find(s, sub, from + 1)

\* bold_replacer, app.py:116-117
bold_replacer(group1) == StrongOpen \o html_escape(group1) \o StrongClose

RECURSIVE BoldSub(_, _)
\* re.sub(r"\*\*(.*?)\*\*", bold_replacer, text, flags=re.DOTALL) from position
\* pos on: the leftmost "**", its lazy group ending at the first "**" that starts
\* two or more characters later; the scan resumes after the match.
BoldSub(text, pos) ==
    LET open  == Find(text, Stars, pos)
        close == IF open = 0 THEN 0 ELSE Find(text, Stars, open + 2)
    IN  IF open = 0 \/ close = 0
        THEN SubSeq(text, pos, Len(text))
        ELSE SubSeq(text, pos, open - 1)
             \o bold_replacer(SubSeq(text, open + 2, close - 1))
             \o BoldSub(text, close + 2)

RECURSIVE SkipSpaces(_, _)
\* the position after a greedy \s* that starts at position p
SkipSpaces(s, p) ==
    IF p <= Len(s) /\ IsSpace(s[p]) THEN SkipSpaces(s, p + 1) ELSE p

\* \d{3} at position p
ThreeDigits(s, p) ==
    p + 2 <= Len(s) /\ IsDigit(s[p]) /\ IsDigit(s[p + 1]) /\ IsDigit(s[p + 2])

\* \s*(\d{3}\s*-\s*\d{3}) from position p: <<start of group 2, end of match>>,
\* or <<0, 0>>.  \s, \d and "-" are disjoint, so the greedy \s* never backtracks.
ScoreTail(s, p) ==
    LET d1 == SkipSpaces(s, p)
        h  == SkipSpaces(s, d1 + 3)
        d2 == SkipSpaces(s, h + 1)
    IN  IF /\ ThreeDigits(s, d1)
           /\ h <= Len(s) /\ s[h] = "-"
           /\ ThreeDigits(s, d2)
        THEN <<d1, d2 + 2>>
        ELSE <<0, 0>>

LowPhrase      == Lower(Phrase)
LowStrongClose == Lower(StrongClose)

\* a variant of the pattern without the optional (?:<\/strong>)?
ScoreMatchAt_NoStrongClose(s, low, i) ==
    IF ~StartsAt(low, i, LowPhrase) THEN <<0, 0>>
    ELSE ScoreTail(s, i + Len(Phrase))

\* score_pattern (app.py:125-128) matched at position i of s, low being
\* Lower(s) (re.IGNORECASE): <<start of group 2, end of match>>, or <<0, 0>>.
\* The optional </strong> is tried first and skipped on failure.
ScoreMatchAt(s, low, i) ==
    LET p == i + Len(Phrase)
    IN  IF ~StartsAt(low, i, LowPhrase) THEN <<0, 0>>
        ELSE IF StartsAt(low, p, LowStrongClose)
                /\ ScoreTail(s, p + Len(StrongClose)) # <<0, 0>>
        THEN ScoreTail(s, p + Len(StrongClose))
        ELSE ScoreTail(s, p)

RECURSIVE FirstScoreMatch(_, _, _)
\* the least position >= from where score_pattern matches, or 0
FirstScoreMatch(s, low, from) ==
    IF from > Len(s) THEN 0
    ELSE IF ScoreMatchAt(s, low, from) # <<0, 0>> THEN from
    ELSE FirstScoreMatch(s, low, from + 1)

\* color_score_replacer, app.py:130-133
color_score_replacer(prefix, score_numbers) ==
    prefix \o SpanOpen \o html_escape(score_numbers) \o SpanClose

RECURSIVE ScoreSub(_, _, _)
\* score_pattern.sub(color_score_replacer, s) from position pos on: the
\* leftmost match, then the scan resumes after it
ScoreSub(s, low, pos) ==
    LET i == FirstScoreMatch(s, low, pos)
    IN  IF i = 0 THEN SubSeq(s, pos, Len(s))
        ELSE LET m == ScoreMatchAt(s, low, i)
             IN  SubSeq(s, pos, i - 1)
                 \o color_score_replacer(SubSeq(s, i, m[1] - 1),
                                         SubSeq(s, m[1], m[2]))
                 \o ScoreSub(s, low, m[2] + 1)

\* step 2 of the formatter: the bolding, run on the original text (app.py:113-118)
BoldStep(text) == BoldSub(text, 1)

\* step 3: the score colouring (app.py:135)
ScoreStep(s) == ScoreSub(s, Lower(s), 1)

\* step 4: processed_text.replace("\n", "<br>\n") (app.py:139)
NewlineStep(s) == ReplaceChar(s, "\n", Br \o <<"\n">>)

\* The html.escape(text) of app.py:105 is overwritten at app.py:118 by the result
\* of the substitution on the original text, so it does not reach the output.
format_ai_response_for_html(text) ==
    IF ~Truthy(text) THEN <<>>
    ELSE NewlineStep(ScoreStep(BoldStep(text)))

----------------------------------------------------------------------------
(* extract_text_from_pdf, app.py:26-38 *)

\* What PyMuPDF does with an uploaded byte sequence: fitz.open either raises
\* (opens = FALSE, with the exception's message) or gives a document of pages;
\* a page is its plain text, or one of the two values below when load_page or
\* get_text raises on it.
RaiseLoad == <<"load_page raises">>
RaiseText == <<"get_text raises">>
PageError == <<"page error">>       \* str(e) of a page exception

NoTextMsg    == <<"No text found in PDF. The PDF might be image-based or empty.">>
PdfErrPrefix == <<"Error processing PDF: ">>

RECURSIVE LStrip(_)
LStrip(s) == IF s # <<>> /\ IsSpace(Head(s)) THEN LStrip(Tail(s)) ELSE s
RECURSIVE RStrip(_)
RStrip(s) ==
    IF s # <<>> /\ IsSpace(s[Len(s)]) THEN RStrip(SubSeq(s, 1, Len(s) - 1)) ELSE s
\* a variant that tests the text itself: if not text
Strip_NoStrip(s) == s
\* str.strip()
Strip(s) == RStrip(LStrip(s))

RECURSIVE ReadPages(_, _, _)
\* the loop of app.py:30-32 from page number k (1-based) on, text being the
\* concatenation so far: the text of all pages, or the exception raised
ReadPages(pages, k, text) ==
    IF k > Len(pages) THEN [raised |-> FALSE, text |-> text, pages_read |-> k - 1]
    ELSE IF pages[k] = RaiseLoad \/ pages[k] = RaiseText
    THEN [raised |-> TRUE, text |-> text, pages_read |-> k - 1]
    ELSE ReadPages(pages, k + 1, text \o pages[k])

\* pdf_document.close() of app.py:33: the handles still open after it
close_document(open_handles) == open_handles - 1

\* The result of one call: the returned pair, the library calls made in order,
\* and the number of document handles the call opened and did not close.
extract_text_from_pdf(pdf_file_bytes) ==
    IF ~pdf_file_bytes.opens
    THEN [text    |-> None,
          error   |-> PdfErrPrefix \o pdf_file_bytes.detail,
          calls   |-> << <<"fitz.open">> >>,
          handles |-> 0]
    ELSE LET read == ReadPages(pdf_file_bytes.pages, 1, <<>>)
         IN  IF read.raised
             THEN \* the except clause is entered from inside the loop:
                  \* line 33 is not reached
                  [text    |-> None,
                   error   |-> PdfErrPrefix \o PageError,
                   calls   |-> << <<"fitz.open">> >>,
                   handles |-> 1]
             ELSE IF Strip(read.text) = <<>>
             THEN [text    |-> None,
                   error   |-> NoTextMsg,
                   calls   |-> << <<"fitz.open">>, <<"close">> >>,
                   handles |-> close_document(1)]
             ELSE [text    |-> read.text,
                   error   |-> None,
                   calls   |-> << <<"fitz.open">>, <<"close">> >>,
                   handles |-> close_document(1)]

----------------------------------------------------------------------------
(* generate_credit_analysis_prompt, app.py:40-74 *)

\* report_text[:30000], app.py:56
TruncateLimit == 30000

\* The f-string's fixed text before and after the embedded report text, one
\* element per template line.
PromptHead ==
    <<"\n",
      "    **Task:** Analyze the following extracted credit report text.\n",
      "    **Role:** Act as a financial expert.\n",
      "    **Objective:** Provide an estimated credit score range and a brief analysis of key factors.\n",
      "\n",
      "    **Instructions:**\n",
      "    1.  Based ONLY on the information provided in the text below, estimate a credit score range (e.g., 650-680).\n",
      "    2.  Briefly list the key positive factors influencing this estimate.\n",
      "    3.  Briefly list the key negative factors influencing this estimate.\n",
      "    4.  Be concise and structure your answer clearly with headings for each section.\n",
      "    5.  Do not ask for more information. Do not invent information not present in the text.\n",
      "    6.  If the text is insufficient, clearly not a credit report, or unanalyzable, state that an analysis cannot be performed and why.\n",
      "\n",
      "    **Credit Report Text (extract):**\n",
      "    ---\n",
      "    ">>
PromptTail ==
    <<"\n",
      "    ---\n",
      "\n",
      "    **Expected Output Format:**\n",
      "\n",
      "    **Estimated Score Range:**\n",
      "    [Your Estimated Range Here]\n",
      "\n",
      "    **Positive Factors:**\n",
      "    - [Factor 1]\n",
      "    - [Factor 2]\n",
      "    - ...\n",
      "\n",
      "    **Negative Factors:**\n",
      "    - [Factor 1]\n",
      "    - [Factor 2]\n",
      "    - ...\n",
      "    ">>

\* a variant that cuts one character late: s[:n + 1]
SlicePrefix_OneMore(s, n) == SubSeq(s, 1, Min(Len(s), n + 1))
\* s[:n]
SlicePrefix(s, n) == SubSeq(s, 1, Min(Len(s), n))

generate_credit_analysis_prompt(report_text) ==
    PromptHead \o SlicePrefix(report_text, TruncateLimit) \o PromptTail

----------------------------------------------------------------------------
(* call_gemini_api, app.py:76-98 *)

\* What the google.generativeai library does on one model.generate_content
\* call, as the record
\*   [kind, text, text_raises, feedback, block_reason, message]:
\*   kind = "raise": the call raises an exception whose str() is message;
\*   kind = "parts": response.parts is non-empty; response.text is text, or
\*                   raises ValueError(message) when text_raises;
\*   kind = "empty": response.parts is empty; feedback says whether
\*                   response.prompt_feedback is truthy, block_reason is
\*                   str(response.prompt_feedback.block_reason).

ApiKeyNotValid   == <<"A","P","I"," ","k","e","y"," ","n","o","t"," ","v","a","l","i","d">>
Quota            == <<"q","u","o","t","a">>
RateLimit        == <<"r","a","t","e"," ","l","i","m","i","t">>
DeadlineExceeded == <<"D","e","a","d","l","i","n","e","E","x","c","e","e","d","e","d">>
Safety           == <<"S","A","F","E","T","Y">>

NotConfiguredMsg ==
    <<"Google API key not configured. Please set it in your .env file or deployment secrets.">>
KeyNotValidMsg == <<"Google API key not valid. Please check your key.">>
QuotaMsg       == <<"Google API quota or rate limit exceeded.">>
TimeoutMsg     == <<"The request to Google API timed out. Please try again.">>
ApiErrPrefix   == <<"Error with Google Gemini API: ">>
UnknownReason  == <<"U","n","k","n","o","w","n">>

SafetyMsg(finish_reason_value) ==
    <<"Gemini API content generation stopped due to safety settings (Reason: ">>
    \o finish_reason_value
    \o <<"). Try a different file or contact support if this seems incorrect.">>
EmptyMsg(finish_reason_value) ==
    <<"Gemini API returned an empty response. The content might have been blocked (Reason: ">>
    \o finish_reason_value
    \o <<") or the prompt was problematic.">>

\* a variant with the quota test ahead of the credential test
classify_error_QuotaFirst(error_detail) ==
    IF Contains(Lower(error_detail), Quota)
       \/ Contains(Lower(error_detail), RateLimit) THEN QuotaMsg
    ELSE IF Contains(error_detail, ApiKeyNotValid) THEN KeyNotValidMsg
    ELSE IF Contains(error_detail, DeadlineExceeded) THEN TimeoutMsg
    ELSE error_detail

\* the if/elif chain of app.py:94-97 on error_detail = str(e)
classify_error(error_detail) ==
    IF Contains(error_detail, ApiKeyNotValid) THEN KeyNotValidMsg
    ELSE IF Contains(Lower(error_detail), Quota)
            \/ Contains(Lower(error_detail), RateLimit) THEN QuotaMsg
    ELSE IF Contains(error_detail, DeadlineExceeded) THEN TimeoutMsg
    ELSE error_detail

\* a variant that calls the endpoint once more before giving up
api_exception_Retry(error_detail, remote_calls) ==
    [text  |-> None,
     error |-> ApiErrPrefix \o classify_error(error_detail),
     calls |-> remote_calls \o << <<"generate_content">> >>]

\* the except clause, app.py:93-98
api_exception(error_detail, remote_calls) ==
    [text  |-> None,
     error |-> ApiErrPrefix \o classify_error(error_detail),
     calls |-> remote_calls]

\* the else branch of app.py:85-92
empty_response(outcome) ==
    LET finish_reason_value ==
            IF outcome.feedback THEN outcome.block_reason ELSE UnknownReason
    IN  IF finish_reason_value # <<"0">>
           /\ Contains(Upper(finish_reason_value), Safety)
        THEN SafetyMsg(finish_reason_value)
        ELSE EmptyMsg(finish_reason_value)

\* the calls to the remote endpoint one invocation makes, app.py:81
remote_calls_made == << <<"generate_content">> >>

\* a variant of the guard that tests "GOOGLE_API_KEY is None"
key_configured_NotNone(key) == key # None
\* the guard of app.py:77, negated: the credential is configured
key_configured(key) == Truthy(key)

\* One invocation with the credential key and the library behaving as outcome:
\* the returned pair and the remote calls made, in order.
call_gemini_api(prompt_text, key, outcome) ==
    IF ~key_configured(key)
    THEN [text |-> None, error |-> NotConfiguredMsg, calls |-> <<>>]
    ELSE IF outcome.kind = "raise"
    THEN api_exception(outcome.message, remote_calls_made)
    ELSE IF outcome.kind = "parts"
    THEN IF outcome.text_raises
         THEN api_exception(outcome.message, remote_calls_made)
         ELSE [text |-> outcome.text, error |-> None, calls |-> remote_calls_made]
    ELSE [text  |-> None,
          error |-> empty_response(outcome),
          calls |-> remote_calls_made]

----------------------------------------------------------------------------
(* The Streamlit script, app.py:213-248.  Every interaction reruns the script *)
(* from the top with fresh names.                                             *)

NoFile == [present |-> FALSE, opens |-> FALSE, detail |-> <<>>, pages |-> <<>>]
NoRemote ==
    [kind |-> "none", text |-> <<>>, text_raises |-> FALSE, feedback |-> FALSE,
     block_reason |-> <<>>, message |-> <<>>]

FatalEl     == <<"st.error", "FATAL ERROR: Google API Key is not configured...">>
UploaderEl  == <<"st.file_uploader">>
SelectedEl  == <<"st.success", "File selected">>
ButtonEl    == <<"st.button", "Analyze PDF with AI">>
InfoEl      == <<"st.info", "Upload a PDF file to begin.">>
SubheaderEl == <<"st.subheader", "AI Analysis Results:">>
NoTextEl    == <<"st.warning", "No text could be extracted...">>
FallbackEl  == <<"st.warning", "Analysis could not be completed...">>
NameErrorEl == <<"NameError">>
PdfErrorEl(extraction_err) == <<"st.error", "PDF Processing Error: ">> \o extraction_err
AiErrorEl(ai_err) == <<"st.error", "AI Analysis Error: ">> \o ai_err
ResultEl(html) ==
    <<"st.markdown", "<pre class=\"ai-response-box\">">> \o html \o <<"</pre>">>

\* a variant without the "not ai_response" test
fallback_check_NoResponseTest(extraction_err, ai_err, ai_resp) ==
    IF Truthy(extraction_err) THEN <<>>
    ELSE IF ai_err = Unset THEN <<NameErrorEl>>
    ELSE IF Truthy(ai_err) THEN <<>>
    ELSE <<FallbackEl>>

\* app.py:246: the elements the trailing check draws
fallback_check(extraction_err, ai_err, ai_resp) ==
    IF Truthy(extraction_err) THEN <<>>
    ELSE IF ai_err = Unset THEN <<NameErrorEl>>
    ELSE IF Truthy(ai_err) THEN <<>>
    ELSE IF Truthy(ai_resp) THEN <<>>
    ELSE <<FallbackEl>>

\* a variant that draws the error and goes on to the result (if, not elif)
show_ai_result_NoElif(api) ==
    [html   |-> format_ai_response_for_html(api.text),
     screen |-> (IF Truthy(api.error) THEN <<AiErrorEl(api.error)>> ELSE <<>>)
                \o <<SubheaderEl, ResultEl(format_ai_response_for_html(api.text))>>,
     calls  |-> << <<"format_ai_response_for_html">>, <<"st.markdown">> >>]

\* app.py:229-243, after call_gemini_api returned api
show_ai_result(api) ==
    IF Truthy(api.error)
    THEN [html |-> Unset, screen |-> <<AiErrorEl(api.error)>>, calls |-> <<>>]
    ELSE IF Truthy(api.text)
    THEN [html   |-> format_ai_response_for_html(api.text),
          screen |-> <<SubheaderEl, ResultEl(format_ai_response_for_html(api.text))>>,
          calls  |-> << <<"format_ai_response_for_html">>, <<"st.markdown">> >>]
    ELSE [html |-> Unset, screen |-> <<>>, calls |-> <<>>]

\* app.py:224-247, the button's handler, the library behaving as outcome
analyze_handler(key, file, outcome) ==
    LET ex == extract_text_from_pdf(file)
    IN  IF Truthy(ex.error)
        THEN [extracted_text |-> ex.text, extraction_error |-> ex.error,
              analysis_prompt |-> Unset, ai_response |-> Unset, ai_error |-> Unset,
              formatted_html_response |-> Unset,
              screen  |-> <<PdfErrorEl(ex.error)>>
                          \o fallback_check(ex.error, Unset, Unset),
              calls   |-> << <<"extract_text_from_pdf">> >> \o ex.calls,
              handles |-> ex.handles,
              remote  |-> NoRemote]
        ELSE IF Truthy(ex.text)
        THEN LET prompt == generate_credit_analysis_prompt(ex.text)
                 api    == call_gemini_api(prompt, key, outcome)
                 shown  == show_ai_result(api)
             IN  [extracted_text |-> ex.text, extraction_error |-> ex.error,
                  analysis_prompt |-> prompt,
                  ai_response |-> api.text, ai_error |-> api.error,
                  formatted_html_response |-> shown.html,
                  screen  |-> shown.screen
                              \o fallback_check(ex.error, api.error, api.text),
                  calls   |-> << <<"extract_text_from_pdf">> >> \o ex.calls
                              \o << <<"generate_credit_analysis_prompt">>,
                                    <<"call_gemini_api">> >>
                              \o api.calls \o shown.calls,
                  handles |-> ex.handles,
                  remote  |-> IF api.calls = <<>> THEN NoRemote ELSE outcome]
        ELSE [extracted_text |-> ex.text, extraction_error |-> ex.error,
              analysis_prompt |-> Unset, ai_response |-> Unset, ai_error |-> Unset,
              formatted_html_response |-> Unset,
              screen  |-> <<NoTextEl>> \o fallback_check(ex.error, Unset, Unset),
              calls   |-> << <<"extract_text_from_pdf">> >> \o ex.calls,
              handles |-> ex.handles,
              remote  |-> NoRemote]

\* the script up to the button, app.py:213-222
page_top(key, file) ==
    IF ~Truthy(key) THEN <<FatalEl>>                      \* st.stop()
    ELSE IF ~file.present THEN <<UploaderEl, InfoEl>>
    ELSE <<UploaderEl, SelectedEl, ButtonEl>>

----------------------------------------------------------------------------
(* Bounds and the inputs drawn within them *)

MaxPages      == 2     \* pages of an uploaded document
MaxMsgFrags   == 2     \* fragments of an exception message
MaxTextFrags  == 4     \* fragments of a generated text
PromptSlack   == 3     \* report lengths within this of 0 and of the limit
PromptPatterns == 6    \* distinct report texts per length

SeqsUpTo(S, n) == UNION {[1..k -> S] : k \in 0..n}

Keys == {None, <<>>, <<"k","e","y">>}

PageTexts == {<<>>, <<" ">>, <<"a">>, <<"7","\n">>}
PageKinds == PageTexts \cup {RaiseLoad, RaiseText}
Files ==
    {[present |-> TRUE, opens |-> FALSE, detail |-> d, pages |-> <<>>] :
        d \in {<<>>, <<"cannot open broken document">>}}
    \cup {[present |-> TRUE, opens |-> TRUE, detail |-> <<>>, pages |-> ps] :
        ps \in SeqsUpTo(PageKinds, MaxPages)}

MsgFrags ==
    {ApiKeyNotValid, Lower(ApiKeyNotValid), Quota, Upper(Quota),
     RateLimit, <<"R","a","t","e"," ","L","i","m","i","t">>, DeadlineExceeded, Lower(DeadlineExceeded), <<"x"," ">>}
Messages == {Concat(fs) : fs \in SeqsUpTo(MsgFrags, MaxMsgFrags)}

BlockReasons ==
    {<<"0">>, <<"1">>, <<"B","l","o","c","k","R","e","a","s","o","n",".","S","A","F","E","T","Y">>, <<"B","l","o","c","k","R","e","a","s","o","n",".","O","T","H","E","R">>,
     <<"s","a","f","e","t","y">>}

SampleResponse ==
    Stars \o Phrase \o Stars \o <<" ","7","0","0","-","7","2","0","\n","G","o","o","d"," ","h","i","s","t","o","r","y",".">>

Raises(msg) ==
    [kind |-> "raise", text |-> <<>>, text_raises |-> FALSE, feedback |-> FALSE,
     block_reason |-> <<>>, message |-> msg]
Parts(txt) ==
    [kind |-> "parts", text |-> txt, text_raises |-> FALSE, feedback |-> FALSE,
     block_reason |-> <<>>, message |-> <<>>]
PartsNoText(msg) ==
    [kind |-> "parts", text |-> <<>>, text_raises |-> TRUE, feedback |-> FALSE,
     block_reason |-> <<>>, message |-> msg]
Empty(fb, reason) ==
    [kind |-> "empty", text |-> <<>>, text_raises |-> FALSE, feedback |-> fb,
     block_reason |-> reason, message |-> <<>>]

ResponseTexts == {<<>>, <<"a">>, <<"<">>, <<" ">>, SampleResponse}
Outcomes ==
    {Raises(m) : m \in {<<>>, Quota, <<"x"," ">>}}
    \cup {Parts(t) : t \in ResponseTexts}
    \cup {PartsNoText(<<"response.text needs a text part">>)}
    \cup {Empty(FALSE, <<>>)}
    \cup {Empty(TRUE, b) : b \in {<<"0">>, Upper(Safety)}}

----------------------------------------------------------------------------
(* The application: one session of the page *)

Init ==
    /\ GOOGLE_API_KEY \in Keys
    /\ uploaded_file = NoFile
    /\ extracted_text = Unset
    /\ extraction_error = Unset
    /\ analysis_prompt = Unset
    /\ ai_response = Unset
    /\ ai_error = Unset
    /\ formatted_html_response = Unset
    /\ screen = page_top(GOOGLE_API_KEY, NoFile)
    /\ calls = <<>>
    /\ handles = 0
    /\ remote = NoRemote

\* a script run in which the button is not pressed
RunWithoutClick(file) ==
    /\ uploaded_file' = file
    /\ extracted_text' = Unset
    /\ extraction_error' = Unset
    /\ analysis_prompt' = Unset
    /\ ai_response' = Unset
    /\ ai_error' = Unset
    /\ formatted_html_response' = Unset
    /\ screen' = page_top(GOOGLE_API_KEY, file)
    /\ calls' = <<>>
    /\ handles' = 0
    /\ remote' = NoRemote
    /\ UNCHANGED GOOGLE_API_KEY

\* the user reloads the page
Reload == RunWithoutClick(uploaded_file)

\* the user picks a file in the uploader (drawn only past the st.stop of line 215)
SelectFile ==
    /\ Truthy(GOOGLE_API_KEY)
    /\ \E f \in Files : RunWithoutClick(f)

\* the user removes the file
RemoveFile ==
    /\ Truthy(GOOGLE_API_KEY)
    /\ uploaded_file.present
    /\ RunWithoutClick(NoFile)

\* the user presses "Analyze PDF with AI"
ClickAnalyze ==
    /\ Truthy(GOOGLE_API_KEY)
    /\ uploaded_file.present
    /\ \E outcome \in Outcomes :
        \E run \in {analyze_handler(GOOGLE_API_KEY, uploaded_file, outcome)} :
            /\ extracted_text' = run.extracted_text
            /\ extraction_error' = run.extraction_error
            /\ analysis_prompt' = run.analysis_prompt
            /\ ai_response' = run.ai_response
            /\ ai_error' = run.ai_error
            /\ formatted_html_response' = run.formatted_html_response
            /\ screen' = page_top(GOOGLE_API_KEY, uploaded_file) \o run.screen
            /\ calls' = run.calls
            /\ handles' = run.handles
            /\ remote' = run.remote
    /\ UNCHANGED <<GOOGLE_API_KEY, uploaded_file>>

Next == Reload \/ SelectFile \/ RemoveFile \/ ClickAnalyze

Spec == Init /\ [][Next]_vars

----------------------------------------------------------------------------
(* The stages called on their own, as a unit test calls them *)

Idle ==
    /\ uploaded_file = NoFile
    /\ screen = <<>>
    /\ calls = <<>>
    /\ handles = 0
    /\ remote = NoRemote

\* call_gemini_api(analysis_prompt) under each credential and library behaviour
ClientOutcomes ==
    {Raises(m) : m \in Messages}
    \cup {Parts(t) : t \in ResponseTexts}
    \cup {PartsNoText(m) : m \in {<<"x"," ">>, Quota}}
    \cup {Empty(FALSE, <<>>)}
    \cup {Empty(TRUE, b) : b \in BlockReasons}

InitClient ==
    /\ Idle
    /\ GOOGLE_API_KEY \in Keys
    /\ extracted_text = <<"a">>
    /\ extraction_error = None
    /\ analysis_prompt = generate_credit_analysis_prompt(<<"a">>)
    /\ ai_response = Unset
    /\ ai_error = Unset
    /\ formatted_html_response = Unset

ClientCall ==
    /\ ai_error = Unset
    /\ \E outcome \in ClientOutcomes :
        \E api \in {call_gemini_api(analysis_prompt, GOOGLE_API_KEY, outcome)} :
            /\ ai_response' = api.text
            /\ ai_error' = api.error
            /\ calls' = << <<"call_gemini_api">> >> \o api.calls
            /\ remote' = IF api.calls = <<>> THEN NoRemote ELSE outcome
    /\ UNCHANGED <<GOOGLE_API_KEY, uploaded_file, extracted_text, extraction_error,
                   analysis_prompt, formatted_html_response, screen, handles>>

SpecClient == InitClient /\ [][ClientCall]_vars

\* generate_credit_analysis_prompt(extracted_text) on report texts around the
\* empty text and around the truncation limit
ReportChars == <<"a", "b", " ", "\n", "7", "-", "<">>
ReportText(n, m) ==
    [i \in 1..n |-> ReportChars[((i * m) % Len(ReportChars)) + 1]]
ReportLengths ==
    (0..PromptSlack) \cup ((TruncateLimit - PromptSlack)..(TruncateLimit + PromptSlack))
PromptInputs == {ReportText(n, m) : n \in ReportLengths, m \in 1..PromptPatterns}

InitPrompt ==
    /\ Idle
    /\ GOOGLE_API_KEY = <<"k","e","y">>
    /\ extracted_text \in PromptInputs
    /\ extraction_error = None
    /\ analysis_prompt = Unset
    /\ ai_response = Unset
    /\ ai_error = Unset
    /\ formatted_html_response = Unset

PromptCall ==
    /\ analysis_prompt = Unset
    /\ analysis_prompt' = generate_credit_analysis_prompt(extracted_text)
    /\ calls' = << <<"generate_credit_analysis_prompt">> >>
    /\ UNCHANGED <<GOOGLE_API_KEY, uploaded_file, extracted_text, extraction_error,
                   ai_response, ai_error, formatted_html_response, screen,
                   handles, remote>>

SpecPrompt == InitPrompt /\ [][PromptCall]_vars

\* format_ai_response_for_html(ai_response) on generated texts put together
\* from the fragments the formatter reacts to
TextFrags ==
    {Phrase, Lower(Phrase), Stars, <<" ">>, <<"\n">>,
     <<"7","0","0","-","7","2","0">>, <<"7","0","0"," ","-"," ","7","2","0">>, <<"7","0","-","7","2","0">>,
     <<"<">>, <<"x">>}
SampleTexts ==
    {SampleResponse,
     Phrase \o <<" ","6","5","0","-","6","8","0">>,
     Phrase \o <<" ","t","h","e"," ","s","c","o","r","e"," ","i","s"," ","u","n","c","l","e","a","r">>,
     Stars \o <<"H","e","l","l","o"," ","&"," ","G","o","o","d","b","y","e">> \o Stars,
     Stars \o Phrase \o Stars \o <<"\n"," "," "," "," ","7","0","0","-","7","2","0","0">>,
     <<"a"," ","&"," ","b",">","c">>,
     Phrase \o StrongClose \o <<" ","7","0","0","-","7","2","0">>,
     <<"<","s","c","r","i","p","t",">","a","l","e","r","t","(","'","x","'",")","<","/","s","c","r","i","p","t",">">>}
FormatInputs ==
    {Concat(fs) : fs \in SeqsUpTo(TextFrags, MaxTextFrags)} \cup SampleTexts

InitFormat ==
    /\ Idle
    /\ GOOGLE_API_KEY = <<"k","e","y">>
    /\ extracted_text = <<"a">>
    /\ extraction_error = None
    /\ analysis_prompt = generate_credit_analysis_prompt(<<"a">>)
    /\ ai_response \in FormatInputs
    /\ ai_error = None
    /\ formatted_html_response = Unset

FormatCall ==
    /\ formatted_html_response = Unset
    /\ formatted_html_response' = format_ai_response_for_html(ai_response)
    /\ calls' = << <<"format_ai_response_for_html">> >>
    /\ UNCHANGED <<GOOGLE_API_KEY, uploaded_file, extracted_text, extraction_error,
                   analysis_prompt, ai_response, ai_error, screen, handles, remote>>

SpecFormat == InitFormat /\ [][FormatCall]_vars

----------------------------------------------------------------------------
(* What the claims read off a state *)

RECURSIVE Count(_, _)
\* the number of elements of seq equal to x
Count(seq, x) ==
    IF seq = <<>> THEN 0
    ELSE (IF Head(seq) = x THEN 1 ELSE 0) + Count(Tail(seq), x)

OnScreen(el) == \E k \in 1..Len(screen) : screen[k] = el
DrawnKind(kind) == \E k \in 1..Len(screen) : screen[k][1] = kind
ResultDrawn == DrawnKind("st.markdown")

StageNames ==
    {<<"extract_text_from_pdf">>, <<"generate_credit_analysis_prompt">>,
     <<"call_gemini_api">>, <<"format_ai_response_for_html">>}
StageOrder ==
    << <<"extract_text_from_pdf">>, <<"generate_credit_analysis_prompt">>,
       <<"call_gemini_api">>, <<"format_ai_response_for_html">> >>
IsStage(c) == c \in StageNames
StagesRun == SelectSeq(calls, IsStage)
Called(stage) == Count(calls, <<stage>>) > 0

HandlerRan == extraction_error # Unset
ClientReturned == ai_error # Unset
Formatted == formatted_html_response # Unset

HasInk(s) == \E k \in 1..Len(s) : ~IsSpace(s[k])
SomePageRaises(file) ==
    \E k \in 1..Len(file.pages) : file.pages[k] \in {RaiseLoad, RaiseText}

\* sub occurs in s, letter case ignored
ContainsCI(s, sub) ==
    \E i \in 1..(Len(s) - Len(sub) + 1) :
        \A k \in 1..Len(sub) : LowerChar(s[i + k - 1]) = LowerChar(sub[k])

----------------------------------------------------------------------------
(* C1 *)

OwnTags == {StrongOpen, StrongClose, SpanOpen, SpanClose, Br}
Entities == {Amp, Lt, Gt, Quot, Apos}

RECURSIVE HasRawSpecial(_, _)
\* from position i on, out holds a <, > or & that belongs neither to a tag
\* the formatter emits nor to an entity
HasRawSpecial(out, i) ==
    IF i > Len(out) THEN FALSE
    ELSE IF \E t \in OwnTags \cup Entities : StartsAt(out, i, t)
    THEN HasRawSpecial(out,
            i + Len(CHOOSE t \in OwnTags \cup Entities : StartsAt(out, i, t)))
    ELSE IF out[i] \in {"<", ">", "&"} THEN TRUE
    ELSE HasRawSpecial(out, i + 1)

\* C1: once format_ai_response_for_html has returned, its output holds no raw
\* <, > or & outside the tags the formatter emits itself: every such character
\* of the input outside a recognized markup pattern has become its entity.
C1_StrayCharactersEscaped ==
    Formatted => ~HasRawSpecial(formatted_html_response, 1)

----------------------------------------------------------------------------
(* C2 *)

\* C2: in every run the stages that ran are an initial part of Extractor,
\* Prompt Builder, Analysis Client, Formatter, in that order and each at most
\* once; after an extraction error the client was not called; after a client
\* error the formatter was not called and no result fragment is on the screen;
\* a result fragment is on the screen only with an extracted text and a model
\* response and no error.
C2_RunEndsAtFirstFailure ==
    /\ Len(StagesRun) <= Len(StageOrder)
    /\ StagesRun = SubSeq(StageOrder, 1, Len(StagesRun))
    /\ (HandlerRan /\ Truthy(extraction_error)) =>
          /\ ~Called("generate_credit_analysis_prompt")
          /\ ~Called("call_gemini_api")
          /\ ~Called("generate_content")
          /\ ~Called("format_ai_response_for_html")
          /\ ~ResultDrawn
    /\ (ClientReturned /\ Truthy(ai_error)) =>
          /\ ~Called("format_ai_response_for_html")
          /\ ~ResultDrawn
          /\ ~Formatted
    /\ ResultDrawn =>
          /\ Truthy(extracted_text) /\ ~Truthy(extraction_error)
          /\ Truthy(ai_response) /\ ~Truthy(ai_error)
          /\ StagesRun = StageOrder
          /\ OnScreen(ResultEl(format_ai_response_for_html(ai_response)))

\* a run that the client's failure ended: three stages ran, the error is drawn
C2_Witness ==
    /\ ClientReturned /\ Truthy(ai_error)
    /\ StagesRun = SubSeq(StageOrder, 1, 3)
    /\ OnScreen(AiErrorEl(ai_error))

----------------------------------------------------------------------------
(* C3 *)

\* C3: a call of call_gemini_api with GOOGLE_API_KEY unset or empty returns
\* (None, the not-configured failure) and makes no generate_content call.
C3_NoKeyNoRemoteCall ==
    (ClientReturned /\ GOOGLE_API_KEY \in {None, <<>>}) =>
        /\ ai_response = None
        /\ ai_error = NotConfiguredMsg
        /\ ~Called("generate_content")
        /\ remote = NoRemote

\* the call was made with the empty string as the key
C3_Witness ==
    /\ ClientReturned
    /\ GOOGLE_API_KEY = <<>>
    /\ Called("call_gemini_api")
    /\ ai_error = NotConfiguredMsg

----------------------------------------------------------------------------
(* C4 *)

\* C4: after extract_text_from_pdf returned, exactly one of text and error is
\* set; a returned text has a character that is not whitespace and is the
\* concatenation of the pages; pages whose concatenation is empty or all
\* whitespace give the no-text failure; a failed open or a page that raises
\* gives a failure that starts with "Error processing PDF: ".
C4_ExactlyOneOfTextAndError ==
    HandlerRan =>
        /\ (extracted_text = None) # (extraction_error = None)
        /\ extracted_text # None =>
              /\ HasInk(extracted_text)
              /\ extracted_text = Concat(uploaded_file.pages)
        /\ extraction_error # None => extraction_error # <<>>
        /\ (uploaded_file.opens /\ ~SomePageRaises(uploaded_file)
              /\ ~HasInk(Concat(uploaded_file.pages))) =>
              extraction_error = NoTextMsg
        /\ (uploaded_file.opens /\ ~SomePageRaises(uploaded_file)
              /\ HasInk(Concat(uploaded_file.pages))) =>
              extraction_error = None
        /\ (~uploaded_file.opens \/ SomePageRaises(uploaded_file)) =>
              /\ extracted_text = None
              /\ StartsAt(extraction_error, 1, PdfErrPrefix)
        /\ ~OnScreen(NameErrorEl)

\* a document of two pages that hold only whitespace
C4_Witness ==
    /\ HandlerRan
    /\ Len(uploaded_file.pages) = 2
    /\ uploaded_file.pages[1] = <<" ">>
    /\ extraction_error = NoTextMsg
    /\ extracted_text = None

----------------------------------------------------------------------------
(* C5 *)

\* C5: when extract_text_from_pdf has returned, every document handle it
\* opened has been closed.
C5_HandleReleased == handles = 0

----------------------------------------------------------------------------
(* C6 *)

EmptyTextResponse ==
    remote.kind = "parts" /\ ~remote.text_raises /\ remote.text = <<>>

\* C6 as claimed: call_gemini_api returns exactly one of a non-empty text and
\* a failure message, and the fallback warning is never drawn.
C6_ExactlyOnePopulated ==
    /\ ClientReturned => (Truthy(ai_response) # Truthy(ai_error))
    /\ ~OnScreen(FallbackEl)

\* C6 as amended: call_gemini_api returns a pair of which exactly one
\* component is not None and never both a text and a failure; neither is
\* populated exactly when the response had content parts and an empty text;
\* and the handler draws the fallback warning in exactly that case, with no
\* error and no result on the screen.
C6_AtMostOnePopulated ==
    /\ ClientReturned =>
          /\ (ai_response = None) # (ai_error = None)
          /\ ~(Truthy(ai_response) /\ Truthy(ai_error))
          /\ (~Truthy(ai_response) /\ ~Truthy(ai_error)) <=> EmptyTextResponse
          /\ ai_error # None => ai_error # <<>>
    /\ OnScreen(FallbackEl) <=> (HandlerRan /\ ClientReturned /\ EmptyTextResponse)
    /\ OnScreen(FallbackEl) => (~DrawnKind("st.error") /\ ~ResultDrawn)

\* the run whose response had parts and an empty text
C6_Witness ==
    /\ HandlerRan
    /\ ~Truthy(extraction_error)
    /\ ai_error = None
    /\ ai_response = <<>>
    /\ OnScreen(FallbackEl)

----------------------------------------------------------------------------
(* C7 *)

\* C7: the prompt is the template's head, then the first 30,000 characters of
\* the report text (all of it when it is no longer), then the template's
\* tail, with nothing in between.
C7_PromptEmbedsPrefix ==
    analysis_prompt # Unset =>
        LET n == IF Len(extracted_text) > 30000 THEN 30000 ELSE Len(extracted_text)
            h == Len(PromptHead)
        IN  /\ Len(analysis_prompt) = h + n + Len(PromptTail)
            /\ \A k \in 1..h : analysis_prompt[k] = PromptHead[k]
            /\ \A k \in 1..n : analysis_prompt[h + k] = extracted_text[k]
            /\ \A k \in 1..Len(PromptTail) : analysis_prompt[h + n + k] = PromptTail[k]

\* a report longer than the limit went through the builder
C7_Witness ==
    /\ analysis_prompt # Unset
    /\ Len(extracted_text) > 30000
    /\ Len(analysis_prompt) = Len(PromptHead) + 30000 + Len(PromptTail)

----------------------------------------------------------------------------
(* C8 *)

AllSpaces(s, from, to) == \A k \in from..to : IsSpace(s[k])

\* three digits, a hyphen, three digits, from position p on
StrictRangeAt(s, p) ==
    /\ ThreeDigits(s, p)
    /\ p + 3 <= Len(s) /\ s[p + 3] = "-"
    /\ ThreeDigits(s, p + 4)

\* three digits, a hyphen, three digits, whitespace allowed around the hyphen
LooseRangeAt(s, p) ==
    /\ ThreeDigits(s, p)
    /\ \E h \in (p + 3)..Len(s) :
          /\ s[h] = "-"
          /\ AllSpaces(s, p + 3, h - 1)
          /\ \E d \in (h + 1)..Len(s) :
                /\ AllSpaces(s, h + 1, d - 1)
                /\ ThreeDigits(s, d)

\* the positions right after an occurrence of the phrase (any letter case),
\* or right after the closing emphasis tag that follows one
AfterPhrase(s) ==
    {i + Len(Phrase) : i \in {j \in 1..Len(s) : StartsAt(Lower(s), j, LowPhrase)}}
    \cup {i + Len(Phrase) + Len(StrongClose) :
             i \in {j \in 1..Len(s) :
                      /\ StartsAt(Lower(s), j, LowPhrase)
                      /\ StartsAt(Lower(s), j + Len(Phrase), LowStrongClose)}}

\* the phrase is followed, after whitespace only, by a strict range
StrictRangeDue(s) ==
    \E p \in AfterPhrase(s) : \E d \in p..Len(s) :
        AllSpaces(s, p, d - 1) /\ StrictRangeAt(s, d)
\* the same with whitespace allowed around the hyphen
LooseRangeDue(s) ==
    \E p \in AfterPhrase(s) : \E d \in p..Len(s) :
        AllSpaces(s, p, d - 1) /\ LooseRangeAt(s, d)

RECURSIVE WithoutSpans(_, _)
\* out from position i on, the highlight span's two tags removed
WithoutSpans(out, i) ==
    IF i > Len(out) THEN <<>>
    ELSE IF StartsAt(out, i, SpanOpen) THEN WithoutSpans(out, i + Len(SpanOpen))
    ELSE IF StartsAt(out, i, SpanClose) THEN WithoutSpans(out, i + Len(SpanClose))
    ELSE <<out[i]>> \o WithoutSpans(out, i + 1)

SampleFormatted ==
    StrongOpen \o Phrase \o StrongClose \o <<" ">> \o SpanOpen
    \o <<"7","0","0","-","7","2","0">> \o SpanClose \o Br \o <<"\n","G","o","o","d"," ","h","i","s","t","o","r","y",".">>

\* C8 as claimed: the output has a highlight span exactly when, in the text
\* after the bolding, the phrase (plain or followed by the closing emphasis
\* tag) is followed, after whitespace only, by three digits, a hyphen and
\* three digits.
C8_HighlightIffStrictRange ==
    (Formatted /\ Truthy(ai_response)) =>
        (Contains(formatted_html_response, SpanOpen)
            <=> StrictRangeDue(BoldStep(ai_response)))

\* C8 as amended: the same with whitespace allowed on either side of the
\* hyphen; the span's tags are the only thing the colouring adds, so the text
\* before the range is unchanged; and the sample response gives the emphasis
\* tag around the label, the span around 700-720 and a line break before
\* "Good history.".
C8_HighlightIffRange ==
    (Formatted /\ Truthy(ai_response)) =>
        /\ Contains(formatted_html_response, SpanOpen)
              <=> LooseRangeDue(BoldStep(ai_response))
        /\ WithoutSpans(formatted_html_response, 1)
              = NewlineStep(BoldStep(ai_response))
        /\ ai_response = SampleResponse => formatted_html_response = SampleFormatted

\* the sample response, formatted
C8_Witness ==
    /\ Formatted
    /\ ai_response = SampleResponse
    /\ Contains(formatted_html_response, StrongClose \o <<" ">> \o SpanOpen)

----------------------------------------------------------------------------
(* C9 *)

LibraryRaised ==
    \/ remote.kind = "raise"
    \/ remote.kind = "parts" /\ remote.text_raises

\* C9: when the library raised, call_gemini_api returned (None, error) with
\* the error classified from the message by the first match among: contains
\* "API key not valid"; contains "quota" or "rate limit" in any letter case;
\* contains "DeadlineExceeded"; otherwise the message itself.
C9_FirstMatchClassifies ==
    (ClientReturned /\ LibraryRaised) =>
        LET m        == remote.message
            key      == Contains(m, ApiKeyNotValid)
            quota    == ContainsCI(m, Quota) \/ ContainsCI(m, RateLimit)
            deadline == Contains(m, DeadlineExceeded)
        IN  /\ ai_response = None
            /\ key => ai_error = ApiErrPrefix \o KeyNotValidMsg
            /\ (~key /\ quota) => ai_error = ApiErrPrefix \o QuotaMsg
            /\ (~key /\ ~quota /\ deadline) => ai_error = ApiErrPrefix \o TimeoutMsg
            /\ (~key /\ ~quota /\ ~deadline) => ai_error = ApiErrPrefix \o m

\* a message that names both the credential and the quota
C9_Witness ==
    /\ ClientReturned
    /\ remote.kind = "raise"
    /\ Contains(remote.message, ApiKeyNotValid)
    /\ ContainsCI(remote.message, Quota)
    /\ ai_error = ApiErrPrefix \o KeyNotValidMsg

----------------------------------------------------------------------------
(* C10 *)

\* C10: a run calls call_gemini_api at most once, and each call of it with a
\* credential configured makes exactly one generate_content call, whatever
\* the library then does.
C10_OneRemoteCallPerInvocation ==
    /\ Count(calls, <<"call_gemini_api">>) <= 1
    /\ Count(calls, <<"generate_content">>) = Count(calls, <<"call_gemini_api">>)
    /\ ClientReturned <=> Called("call_gemini_api")
    /\ Called("generate_content") <=> remote # NoRemote

\* a run in which the one remote call raised
C10_Witness ==
    /\ ClientReturned
    /\ remote.kind = "raise"
    /\ Truthy(ai_error)
    /\ Count(calls, <<"generate_content">>) = 1

====
